---- MODULE Spec2Model ----
(***************************************************************************)
(* State-machine model of the grocery list application (src/app.js).      *)
(*                                                                         *)
(* Strings the program inspects character by character (the item name,    *)
(* the quantity text, the note) are sequences of one-character strings.   *)
(* A JavaScript object is a record that has a key only when the object    *)
(* has the property, so a missing property is a missing key.              *)
(* A text held by localStorage or by a file is a tagged tuple:            *)
(*   <<>>                 no text (getItem returned null)                 *)
(*   <<"garbage">>        a text JSON.parse rejects                       *)
(*   <<"lit", s>>         the JSON literal s (true, false, null)          *)
(*   <<"num", n>>         a JSON number                                   *)
(*   <<"str", s>>         a JSON string                                   *)
(*   <<"arr", elems>>     a JSON array of object texts                    *)
(*   <<"obj", pairs>>     a JSON object, a sequence of <<key, text>>      *)
(*   <<"raw", s>>         a plain (non JSON) string slot                  *)
(***************************************************************************)
EXTENDS Integers, Sequences, FiniteSets, TLC

VARIABLES
  items,        \* app.js:77   in-memory item list
  dark,         \* app.js:77   theme flag
  listName,     \* app.js:77   list label
  listId,       \* app.js:77   list identifier
  ls,           \* localStorage, the four he-grocery.* slots
  running,      \* init() ran to its end, so the event handlers are bound
  download,     \* the file last produced by exportJSON
  uuidCount,    \* number of identifiers crypto.randomUUID has handed out
  cryptoAvail,  \* crypto.randomUUID exists in this browser
  opsLeft,      \* handler invocations this run may still make
  scope,        \* which handlers the run has used so far
  lastOp,       \* the handler that ran last and how it ended
  filter,       \* app.js:291 filterSelect.value
  query,        \* app.js:134 itemNameInput.value, as updateSuggestions reads it
  shown,        \* app.js:308-404 what render left in itemsContainer
  suggestions,  \* app.js:142-153 what updateSuggestions left in suggestionsDiv
  recognizer,   \* app.js:244 the session the program holds; 0 = null
  sessions,     \* the SpeechRecognition objects created so far
  voiceBtnShown,      \* app.js:274, 283 voiceBtn.style.display is not none
  stopVoiceBtnShown,  \* app.js:275, 284 stopVoiceBtn.style.display is not none
  speechSupported,    \* app.js:246 the browser has SpeechRecognition
  caller,       \* the session whose callback ran last; 0 = a click
  swPhase,      \* the worker: parsed, installed, activated or redundant
  swCaches,     \* the cache storage: cache name -> the request URLs it holds
  reqs,         \* the fetch events the worker has received, with their progress
  swLast        \* the worker step taken last

\* the page content; followed in SpecView, left alone by the handlers of Spec
viewVars == <<filter, query, shown, suggestions>>

\* speech input; followed in SpecVoice
voiceVars == <<recognizer, sessions, voiceBtnShown, stopVoiceBtnShown,
               speechSupported, caller>>

\* the asset cache worker; followed in SpecWorker
swVars == <<swPhase, swCaches, reqs, swLast>>

vars == <<items, dark, listName, listId, ls, running, download, uuidCount,
          cryptoAvail, opsLeft, scope, lastOp, viewVars, voiceVars, swVars>>

----------------------------------------------------------------------------
(* Bounds *)

MaxOps == 2        \* handler invocations (page reloads included) per run

----------------------------------------------------------------------------
(* Program constants *)

CATS == <<"vegetables", "fruit", "dairy", "meat", "bakery", "drinks",
          "cleaning", "toiletries", "frozen", "canned", "sweets", "spices",
          "other">>

FALLBACK_CAT == "other"

DEFAULT_LIST_NAME == "home shopping"

----------------------------------------------------------------------------
(* Inputs *)

NameInputs == { <<>>, <<" ">>, <<" ", "a">>, <<"b">> }
QtyInputs == { <<>>, <<"x">>, <<"0">>, <<"2">>, <<"-", "1">> }
NoteInputs == { <<"n", " ">> }
CatInputs == { "dairy" }
ListNameInputs == { "", "party" }
\* the fractions Math.random() can contribute to an identifier
Rands == {0, 1}
\* what Date.now() can read; handlers may run within the same millisecond
Times == {0, 1}

----------------------------------------------------------------------------
(* String helpers *)

Digits == <<"0", "1", "2", "3", "4", "5", "6", "7", "8", "9">>

IsDigit(c) == \E d \in 1..10 : Digits[d] = c

DigitVal(c) == (CHOOSE d \in 1..10 : Digits[d] = c) - 1

IsSpace(c) == c = " "

RECURSIVE TrimStart(_)
TrimStart(s) ==
  IF s # <<>> /\ IsSpace(Head(s)) THEN TrimStart(Tail(s)) ELSE s

RECURSIVE TrimEnd(_)
TrimEnd(s) ==
  IF s # <<>> /\ IsSpace(s[Len(s)])
    THEN TrimEnd(SubSeq(s, 1, Len(s) - 1))
    ELSE s

\* String.prototype.trim
Trim(s) == TrimEnd(TrimStart(s))

\* the leading run of decimal digits of s, as [seen, val]
RECURSIVE DigitRun(_, _, _)
DigitRun(s, seen, acc) ==
  IF s # <<>> /\ IsDigit(Head(s))
    THEN DigitRun(Tail(s), TRUE, 10 * acc + DigitVal(Head(s)))
    ELSE [seen |-> seen, val |-> acc]

\* parseInt(s, 10): skips leading white space, reads an optional sign and
\* the longest run of digits; NaN when there is no digit
ParseInt(s) ==
  LET t == TrimStart(s)
      neg == t # <<>> /\ Head(t) = "-"
      signed == t # <<>> /\ Head(t) \in {"-", "+"}
      run == DigitRun(IF signed THEN Tail(t) ELSE t, FALSE, 0)
  IN  [nan |-> ~run.seen, val |-> IF neg THEN 0 - run.val ELSE run.val]

\* parseInt(text, 10) || 1      (NaN and 0 are falsy)
QtyOf(text) ==
  LET p == ParseInt(text)
  IN  IF p.nan \/ p.val = 0 THEN 1 ELSE p.val

----------------------------------------------------------------------------
(* JavaScript objects and JSON *)

ItemKeys == <<"id", "name", "qty", "category", "note", "done", "createdAt",
              "listId">>

Has(o, k) == k \in DOMAIN o

\* o.id is truthy: present and not the empty string
TruthyId(o) == Has(o, "id") /\ o.id # <<>>

\* o.qty || 1
QtyOr1(o) == IF Has(o, "qty") /\ o.qty # 0 THEN o.qty ELSE 1

\* o.done is truthy
IsDone(o) == Has(o, "done") /\ o.done

\* JSON.stringify of one item: its own properties, in key order
StringifyItem(o) ==
  LET present == SelectSeq(ItemKeys, LAMBDA k : Has(o, k))
  IN  [i \in 1..Len(present) |-> <<present[i], o[present[i]]>>]

\* JSON.parse of one item text
ParseItem(txt) ==
  [k \in {txt[i][1] : i \in 1..Len(txt)} |->
     txt[CHOOSE i \in 1..Len(txt) : txt[i][1] = k][2]]

\* JSON.stringify(items)
StringifyItems(its) == <<"arr", [i \in 1..Len(its) |-> StringifyItem(its[i])]>>

\* JSON.stringify(dark)
StringifyBool(b) == <<"lit", IF b THEN "true" ELSE "false">>

NoText == <<>>
Garbage == <<"garbage">>

\* the value JSON.parse gives for a text that is not an array of objects,
\* kept apart from item lists
NotAList(txt) == [notAList |-> txt]

----------------------------------------------------------------------------
(* uuid() *)

\* app.js:25-31.  calls = number of identifiers this handler has already
\* drawn, t = Date.now(), r = the fraction Math.random() contributes.
\* crypto.randomUUID never repeats; the fallback is the text of
\* Date.now() + Math.random(), equal for equal clock and equal fraction.
uuid(calls, t, r) ==
  IF cryptoAvail
    THEN <<"u", uuidCount + calls + 1>>
    ELSE <<"t", t, r>>

\* the generator's counter after a handler drew n identifiers
UuidCountAfter(n) == IF cryptoAvail THEN uuidCount + n ELSE uuidCount

----------------------------------------------------------------------------
(* Persistence *)

\* app.js:40-43
LoadItems(store) ==
  LET raw == store.items
  IN  IF raw = NoText \/ raw = Garbage THEN <<>>
      ELSE IF raw[1] = "arr"
        THEN [i \in 1..Len(raw[2]) |-> ParseItem(raw[2][i])]
        ELSE NotAList(raw)

\* Array.isArray of what LoadItems yields
LoadsAList(store) ==
  LET raw == store.items
  IN  raw = NoText \/ raw = Garbage \/ raw[1] = "arr"

\* app.js:44-46
LoadDark(store) ==
  LET raw == store.dark
  IN  IF raw = NoText \/ raw = Garbage THEN FALSE
      ELSE raw[2] = "true"

\* app.js:47-50
LoadListName(store) ==
  LET raw == store.listName
  IN  IF raw = NoText \/ raw[2] = "" THEN DEFAULT_LIST_NAME ELSE raw[2]

\* app.js:51-54; fresh is the identifier line 39 generated
LoadListId(store, fresh) ==
  LET raw == store.listId
  IN  IF raw = NoText \/ raw[2] = <<>> THEN fresh ELSE raw[2]

\* app.js:35-56
loadState(store, fresh) ==
  [items |-> LoadItems(store), dark |-> LoadDark(store),
   listName |-> LoadListName(store), listId |-> LoadListId(store, fresh)]

\* a save that would write the items key only, whatever else is passed
saveStateItemsOnly(store, partial) ==
  [k \in DOMAIN store |->
     IF k \in DOMAIN partial /\ k = "items"
       THEN <<"arr", [i \in 1..Len(partial[k]) |-> StringifyItem(partial[k][i])]>>
       ELSE store[k]]

\* the text setItem stores for key k
SlotText(k, v) ==
  CASE k = "items" -> StringifyItems(v)
    [] k = "dark" -> StringifyBool(v)
    [] OTHER -> <<"raw", v>>

\* app.js:61-74: writes the keys present in partial, leaves the others
saveState(store, partial) ==
  [k \in DOMAIN store |->
     IF k \in DOMAIN partial THEN SlotText(k, partial[k]) ELSE store[k]]

----------------------------------------------------------------------------
(* Item list helpers *)

Undefined == <<"undefined">>

\* it.id as a handler sees it
IdOf(it) == IF Has(it, "id") THEN it.id ELSE Undefined

\* { ...o, [k]: v }
With(o, k, v) == [x \in (DOMAIN o) \cup {k} |-> IF x = k THEN v ELSE o[x]]

\* Array.prototype.filter
Filter(its, keep(_)) == SelectSeq(its, keep)

\* a search that would match finished items too
FindAnyNamed(its, name) ==
  LET hits == {i \in 1..Len(its) : Has(its[i], "name") /\ its[i].name = name}
  IN  IF hits = {} THEN 0 ELSE CHOOSE i \in hits : \A j \in hits : i <= j

\* items.find(it => it.name === name && !it.done), as an index; 0 = none
FindUnfinished(its, name) ==
  LET hits == {i \in 1..Len(its) :
                 Has(its[i], "name") /\ its[i].name = name /\ ~IsDone(its[i])}
  IN  IF hits = {} THEN 0 ELSE CHOOSE i \in hits : \A j \in hits : i <= j

\* app.js:133-154 raises a TypeError exactly when it calls includes on a
\* name that is not a string: the query is not empty and some item has no
\* name
UpdateSuggestionsThrows(its, queryText) ==
  Trim(queryText) # <<>> /\ \E i \in 1..Len(its) : ~Has(its[i], "name")

----------------------------------------------------------------------------
(* Documents *)

\* data[k] of a parsed document text; Undefined when data has no such key
Field(doc, k) ==
  IF doc # NoText /\ doc[1] = "obj" /\ \E i \in 1..Len(doc[2]) : doc[2][i][1] = k
    THEN doc[2][CHOOSE i \in 1..Len(doc[2]) : doc[2][i][1] = k][2]
    ELSE Undefined

\* JSON.parse accepts the text
Parses(doc) == doc # NoText /\ doc # Garbage

\* JSON.parse gives null
ParsesToNull(doc) == doc = <<"lit", "null">>

\* Array.isArray(data.items)
ItemsIsArray(doc) == Field(doc, "items")[1] = "arr"

\* data.listName / data.listId is truthy
TruthyField(doc, k, empty) ==
  Field(doc, k)[1] = "str" /\ Field(doc, k)[2] # empty

\* app.js:206-207
ExportText(its, name, id) ==
  <<"obj", << <<"version", <<"num", 1>>>>,
              <<"listName", <<"str", name>>>>,
              <<"listId", <<"str", id>>>>,
              <<"items", StringifyItems(its)>> >> >>

DocItem(id, name, qty) ==
  StringifyItem([id |-> id, name |-> name, qty |-> qty, category |-> "dairy",
                 note |-> <<>>, done |-> FALSE, createdAt |-> 0,
                 listId |-> <<"d", 7>>])

\* a file that is not JSON
DocGarbage == Garbage
\* the JSON text null
DocNull == <<"lit", "null">>
\* the JSON text 5
DocNumber == <<"num", 5>>
\* an object without items
DocNoItems == <<"obj", << <<"listName", <<"str", "party">>>> >> >>
\* items: "not-an-array"
DocItemsString ==
  <<"obj", << <<"items", <<"str", "not-an-array">>>> >> >>
\* two items with the same identifier, one of quantity 0
DocSameIds ==
  <<"obj", << <<"items", <<"arr", << DocItem(<<"d", 1>>, <<"a">>, 0),
                                     DocItem(<<"d", 1>>, <<"b">>, 1) >> >> >>,
              <<"listId", <<"str", <<"d", 7>>>>>> >> >>
\* two items without identifier, the second also without a name
DocNoIds ==
  <<"obj", << <<"items", <<"arr", << << <<"name", <<"a">>>>, <<"qty", 1>> >>,
                                     << <<"done", TRUE>> >> >> >> >>,
              <<"listName", <<"str", "party">>>> >> >>

Docs == {DocGarbage, DocNull, DocNumber, DocNoItems, DocItemsString,
         DocSameIds, DocNoIds}

----------------------------------------------------------------------------
(* Initial storage *)

EmptyStore ==
  [items |-> NoText, dark |-> NoText, listName |-> NoText, listId |-> NoText]

\* every slot unreadable or set by an earlier visit
CorruptStore ==
  [items |-> Garbage, dark |-> Garbage, listName |-> <<"raw", "party">>,
   listId |-> <<"raw", <<"d", 7>>>>]

\* the items slot holds JSON that is not a list
NotAListStore == [EmptyStore EXCEPT !.items = <<"num", 5>>]

\* a list written by an earlier version: an item without id, qty and done
LegacyStore ==
  [items |-> <<"arr", << << <<"name", <<"a">>>>, <<"category", "dairy">> >> >> >>,
   dark |-> <<"lit", "true">>, listName |-> NoText,
   listId |-> <<"raw", <<"d", 7>>>>]

\* what an earlier session of this program left: a finished and an
\* unfinished item
PriorItem(id, name, qty, done) ==
  [id |-> id, name |-> name, qty |-> qty, category |-> "dairy",
   note |-> <<>>, done |-> done, createdAt |-> 0, listId |-> <<"d", 7>>]

PriorStore ==
  [items |-> StringifyItems(<< PriorItem(<<"d", 1>>, <<"a">>, 2, TRUE),
                               PriorItem(<<"d", 2>>, <<"b">>, 1, FALSE) >>),
   dark |-> <<"lit", "false">>, listName |-> <<"raw", "party">>,
   listId |-> <<"raw", <<"d", 7>>>>]

InitStores ==
  {EmptyStore, CorruptStore, NotAListStore, LegacyStore, PriorStore}

----------------------------------------------------------------------------
(* The handlers *)

\* lastOp: the handler, how it ended, and for addItem the name text it
\* read and the quantity line 162 computed (0 when it was not reached)
Op(name, out) == [op |-> name, out |-> out, nameText |-> <<>>, qty |-> 0]

ListOps == {"addItem", "toggleDone", "removeItem", "clearDoneItems"}

\* "listOps": the list was empty at page load and only the four list
\* handlers ran; "noImport": no import ran; "any": an import ran
ScopeAfter(name) ==
  IF name = "importJSON" THEN "any"
  ELSE IF name \in ListOps THEN scope
  ELSE IF scope = "listOps" THEN "noImport" ELSE scope

\* the page content is not followed
NoView == <<"not followed">>

\* app.js:244: no speech session was started
VoiceIdle ==
  /\ recognizer = 0
  /\ sessions = <<>>
  /\ voiceBtnShown = TRUE
  /\ stopVoiceBtnShown = FALSE
  /\ speechSupported = TRUE
  /\ caller = 0

\* part_000:1
CACHE_NAME == "sababagrocery-v3"

\* the worker script was evaluated, nothing is cached
WorkerIdle ==
  /\ swPhase = "parsed"
  /\ swCaches = [n \in {} |-> {}]
  /\ reqs = <<>>
  /\ swLast = [op |-> "none", req |-> 0]

\* what every handler invocation does to the run's bookkeeping
Invoked(name) ==
  /\ running
  /\ opsLeft > 0
  /\ opsLeft' = opsLeft - 1
  /\ scope' = ScopeAfter(name)
  /\ UNCHANGED <<viewVars, voiceVars, swVars>>

Called(name, out) ==
  /\ Invoked(name)
  /\ lastOp' = Op(name, out)

\* app.js:77 and 408-447: page load
Init ==
  \E store \in InitStores, c \in BOOLEAN, r \in Rands :
    /\ (c => r = 0)
    /\ cryptoAvail = c
    /\ uuidCount = IF c THEN 1 ELSE 0
    /\ ls = store
    /\ LET fresh == IF c THEN <<"u", 1>> ELSE <<"t", 0, r>>
           st == loadState(store, fresh)
       IN  /\ items = st.items
           /\ dark = st.dark
           /\ listName = st.listName
           /\ listId = st.listId
    /\ running = LoadsAList(store)
    /\ download = NoText
    /\ opsLeft = MaxOps
    /\ scope = IF LoadItems(store) = <<>> THEN "listOps" ELSE "noImport"
    /\ lastOp = Op("load", "ok")
    /\ filter = NoView /\ query = NoView
    /\ shown = NoView /\ suggestions = NoView
    /\ VoiceIdle
    /\ WorkerIdle

\* a page reload: loadState again, then init()
ReloadWith(t, r) ==
  /\ opsLeft > 0
  /\ opsLeft' = opsLeft - 1
  /\ LET st == loadState(ls, uuid(0, t, r))
     IN  /\ items' = st.items
         /\ dark' = st.dark
         /\ listName' = st.listName
         /\ listId' = st.listId
  /\ running' = LoadsAList(ls)
  /\ uuidCount' = UuidCountAfter(1)
  /\ scope' = ScopeAfter("reload")
  /\ lastOp' = Op("reload", "ok")
  /\ UNCHANGED <<ls, download, cryptoAvail, viewVars, voiceVars, swVars>>

Reload ==
  \E t \in Times, r \in Rands :
    /\ cryptoAvail => (t = 0 /\ r = 0)
    /\ ReloadWith(t, r)

\* app.js:170
NewItem(name, qty, cat, note, t, r) ==
  [id |-> uuid(0, t, r), name |-> name, qty |-> qty, category |-> cat,
   note |-> note, done |-> FALSE, createdAt |-> t, listId |-> listId]

\* an addItem without the early return of line 161
addItemWithoutNameCheck(nameText, qtyText, catValue, noteText, t, r) ==
  LET name == Trim(nameText)
      its == <<NewItem(name, QtyOf(qtyText), catValue, Trim(noteText), t, r)>>
               \o items
  IN  [items |-> its, saved |-> TRUE, drawn |-> 1, out |-> "created"]

\* app.js:159-176 on the field contents nameText, qtyText, catValue and
\* noteText, at clock t with random fraction r: the new list, whether line
\* 177 is reached, and the identifiers drawn
addItem(nameText, qtyText, catValue, noteText, t, r) ==
  LET name == Trim(nameText)
      qty == QtyOf(qtyText)
      cat == IF catValue # "" THEN catValue ELSE FALLBACK_CAT
      note == Trim(noteText)
      existing == FindUnfinished(items, name)
  IN  IF name = <<>>
        THEN [items |-> items, saved |-> FALSE, drawn |-> 0, out |-> "blank"]
        ELSE IF existing # 0
          THEN [items |-> [items EXCEPT ![existing] =
                             With(@, "qty", QtyOr1(@) + qty)],
                saved |-> TRUE, drawn |-> 0, out |-> "merged"]
          ELSE [items |-> <<NewItem(name, qty, cat, note, t, r)>> \o items,
                saved |-> TRUE, drawn |-> 1, out |-> "created"]

\* app.js:159-180
AddItemWith(nameText, qtyText, catValue, noteText, t, r) ==
  LET res == addItem(nameText, qtyText, catValue, noteText, t, r)
  IN  /\ Invoked("addItem")
      /\ lastOp' = [op |-> "addItem", out |-> res.out, nameText |-> nameText,
                    qty |-> IF res.out = "blank" THEN 0 ELSE QtyOf(qtyText)]
      /\ items' = res.items
      /\ ls' = IF res.saved THEN saveState(ls, [items |-> items']) ELSE ls
      /\ uuidCount' = UuidCountAfter(res.drawn)
      /\ UNCHANGED <<dark, listName, listId, running, download, cryptoAvail>>

AddItem ==
  \E nameText \in NameInputs, qtyText \in QtyInputs, cat \in CatInputs,
     noteText \in NoteInputs, t \in Times, r \in Rands :
    /\ cryptoAvail => r = 0
    /\ AddItemWith(nameText, qtyText, cat, noteText, t, r)

\* the identifiers a rendered control can pass, and one that no item has
IdArgs == {IdOf(items[i]) : i \in 1..Len(items)} \cup {<<"d", 0>>}

\* a toggle that would flip every item
toggleDoneOfAll(its, id) ==
  [i \in 1..Len(its) |-> With(its[i], "done", ~IsDone(its[i]))]

\* app.js:184
toggleDone(its, id) ==
  [i \in 1..Len(its) |->
     IF IdOf(its[i]) = id THEN With(its[i], "done", ~IsDone(its[i]))
                          ELSE its[i]]

\* app.js:183-187
ToggleDoneWith(id) ==
  /\ Called("toggleDone", "ok")
  /\ items' = toggleDone(items, id)
  /\ ls' = saveState(ls, [items |-> items'])
  /\ UNCHANGED <<dark, listName, listId, running, download, uuidCount,
                 cryptoAvail>>

ToggleDone == running /\ \E id \in IdArgs : ToggleDoneWith(id)

\* app.js:191
removeItem(its, id) == Filter(its, LAMBDA it : IdOf(it) # id)

\* app.js:190-194
RemoveItemWith(id) ==
  /\ Called("removeItem", "ok")
  /\ items' = removeItem(items, id)
  /\ ls' = saveState(ls, [items |-> items'])
  /\ UNCHANGED <<dark, listName, listId, running, download, uuidCount,
                 cryptoAvail>>

RemoveItem == running /\ \E id \in IdArgs : RemoveItemWith(id)

\* a clear that would empty the list
clearAllItems(its) == <<>>

\* app.js:198
clearDoneItems(its) == Filter(its, LAMBDA it : ~IsDone(it))

\* app.js:197-201
ClearDoneItems ==
  /\ Called("clearDoneItems", "ok")
  /\ items' = clearDoneItems(items)
  /\ ls' = saveState(ls, [items |-> items'])
  /\ UNCHANGED <<dark, listName, listId, running, download, uuidCount,
                 cryptoAvail>>

\* app.js:124-128
ToggleDark ==
  /\ Called("toggleDark", "ok")
  /\ dark' = ~dark
  /\ ls' = saveState(ls, [dark |-> dark'])
  /\ UNCHANGED <<items, listName, listId, running, download, uuidCount,
                 cryptoAvail>>

\* app.js:415-418
SetListNameWith(value) ==
  /\ Called("setListName", "ok")
  /\ listName' = IF value # "" THEN value ELSE DEFAULT_LIST_NAME
  /\ ls' = saveState(ls, [listName |-> listName'])
  /\ UNCHANGED <<items, dark, listId, running, download, uuidCount,
                 cryptoAvail>>

SetListName == \E value \in ListNameInputs : SetListNameWith(value)

\* app.js:205-214
ExportJSON ==
  /\ Called("exportJSON", "ok")
  /\ download' = ExportText(items, listName, listId)
  /\ UNCHANGED <<items, dark, listName, listId, ls, running, uuidCount,
                 cryptoAvail>>

\* number of uuid() calls of line 226
IdsDrawn(elems) ==
  Cardinality({j \in 1..Len(elems) : ~TruthyId(ParseItem(elems[j]))})

\* number of uuid() calls the import of a file text makes
DrawsOf(doc) ==
  IF Parses(doc) /\ ~ParsesToNull(doc) /\ ItemsIsArray(doc)
    THEN IdsDrawn(Field(doc, "items")[2])
    ELSE 0

\* a map that would give every element a new id: ({ ...it, id: uuid() })
IdsAssignedAll(elems, t, rs) ==
  [i \in 1..Len(elems) |->
     With(ParseItem(elems[i]), "id",
          uuid(i - 1, t, IF i \in DOMAIN rs THEN rs[i] ELSE 0))]

\* app.js:226: data.items.map(it => ({ ...it, id: it.id || uuid() }));
\* rs[k] is the random fraction the k-th uuid() call draws
IdsAssigned(elems, t, rs) ==
  [i \in 1..Len(elems) |->
     LET it == ParseItem(elems[i])
         before == IdsDrawn(SubSeq(elems, 1, i - 1))
     IN  IF TruthyId(it) THEN it
         ELSE With(it, "id", uuid(before, t, rs[before + 1]))]

Unchanged(out) ==
  [items |-> items, listName |-> listName, listId |-> listId,
   saved |-> FALSE, out |-> out, drawn |-> 0]

\* app.js:221-239, the reader.onload callback, on the file text doc while
\* the name field holds queryText: the new state, whether line 229 is
\* reached, and the alert
importJSON(doc, queryText, t, rs) ==
  IF ~Parses(doc) THEN Unchanged("loadError")          \* JSON.parse throws
  ELSE IF ParsesToNull(doc) THEN Unchanged("loadError") \* null.items throws
  ELSE IF ~ItemsIsArray(doc) THEN Unchanged("invalidFile")
  ELSE
    LET its == IdsAssigned(Field(doc, "items")[2], t, rs)
        name == IF TruthyField(doc, "listName", "")
                  THEN Field(doc, "listName")[2] ELSE listName
        id == IF TruthyField(doc, "listId", <<>>)
                THEN Field(doc, "listId")[2] ELSE listId
    IN  [items |-> its, listName |-> name, listId |-> id, saved |-> TRUE,
         out |-> IF UpdateSuggestionsThrows(its, queryText)
                   THEN "loadError" ELSE "ok",
         drawn |-> IdsDrawn(Field(doc, "items")[2])]

\* app.js:219-241
ImportJSONWith(doc, queryText, t, rs) ==
  LET res == importJSON(doc, queryText, t, rs)
  IN  /\ Called("importJSON", res.out)
      /\ items' = res.items
      /\ listName' = res.listName
      /\ listId' = res.listId
      /\ ls' = IF res.saved
                THEN saveState(ls, [items |-> items', listName |-> listName',
                                    listId |-> listId'])
                ELSE ls
      /\ uuidCount' = UuidCountAfter(res.drawn)
      /\ UNCHANGED <<dark, running, download, cryptoAvail>>

ImportJSON ==
  \E doc \in Docs \cup {download}, queryText \in NameInputs, t \in Times :
    \E rs \in [1..DrawsOf(doc) -> Rands] :
    /\ doc # NoText
    /\ cryptoAvail => (t = 0 /\ \A i \in DOMAIN rs : rs[i] = 0)
    /\ ImportJSONWith(doc, queryText, t, rs)

----------------------------------------------------------------------------

Next ==
  \/ AddItem
  \/ ToggleDone
  \/ RemoveItem
  \/ ClearDoneItems
  \/ ToggleDark
  \/ SetListName
  \/ ExportJSON
  \/ ImportJSON
  \/ Reload

Spec == Init /\ [][Next]_vars

----------------------------------------------------------------------------
(* Vocabulary of the properties *)

\* the item identifiers of the list are pairwise distinct
DistinctIds(its) ==
  \A i, j \in 1..Len(its) : i # j => IdOf(its[i]) # IdOf(its[j])

\* the text is empty or holds white space only
IsBlank(text) == \A i \in 1..Len(text) : text[i] = " "

\* the step taken is some invocation of addItem, with its inputs
AddItemInputs ==
  NameInputs \X QtyInputs \X CatInputs \X NoteInputs \X Times \X Rands

AddItemStep(in) ==
  /\ lastOp'.op = "addItem"
  /\ AddItemWith(in[1], in[2], in[3], in[4], in[5], in[6])

\* the unfinished items that carry the name
Unfinished(its, name) ==
  {i \in 1..Len(its) :
     Has(its[i], "name") /\ its[i].name = name /\ ~IsDone(its[i])}

\* addItem created one unfinished item of that name and quantity at the
\* front and left every existing item as it was
InsertedAtFront(name, qty) ==
  /\ Len(items') = Len(items) + 1
  /\ Has(items'[1], "name") /\ items'[1].name = name
  /\ Has(items'[1], "qty") /\ items'[1].qty = qty
  /\ Has(items'[1], "done") /\ items'[1].done = FALSE
  /\ \A i \in 1..Len(items) : items'[i + 1] = items[i]

\* the quantity an item stores; an item that stores none has the default 1
StoredQty(it) == IF Has(it, "qty") THEN it.qty ELSE 1

----------------------------------------------------------------------------
(* C1 *)

\* C1 (as claimed): a list handler (addItem, toggleDone, removeItem,
\* clearDoneItems) that starts from a list of pairwise distinct identifiers
\* ends with a list of pairwise distinct identifiers.
C1_IdsStayDistinct ==
  [][(lastOp'.op \in ListOps /\ opsLeft' < opsLeft /\ DistinctIds(items))
       => DistinctIds(items')]_vars

----------------------------------------------------------------------------
(* C2 *)

\* what addItem must have done with a name and a quantity, the old quantity
\* of the item it merges into being read by oldQty
AddItemDid(name, qty, oldQty(_)) ==
  LET hits == Unfinished(items, name)
  IN  IF hits # {}
        THEN /\ Len(items') = Len(items)
             /\ \E i \in hits :
                  Has(items'[i], "qty") /\ items'[i].qty = oldQty(items[i]) + qty
        ELSE InsertedAtFront(name, qty)

\* C2 (as claimed): addItem with a name that is not blank either adds the
\* quantity to the stored quantity of an unfinished item of that name and
\* keeps the length of the list, or, when no unfinished item has the name,
\* inserts one new unfinished item at the front and leaves the others.
C2_AddItemAsClaimed ==
  [][(lastOp'.op = "addItem" /\ opsLeft' < opsLeft
        /\ ~IsBlank(lastOp'.nameText))
       => AddItemDid(Trim(lastOp'.nameText), lastOp'.qty, StoredQty)]_vars

\* an old quantity of 0 counts as 1, like an absent one
StoredQtyOr1(it) == IF StoredQty(it) = 0 THEN 1 ELSE StoredQty(it)

\* C2 (amended): as claimed, except that an old quantity of 0 counts as 1,
\* like an absent one: the unfinished item's quantity becomes
\* (old quantity, or 1 when that is 0 or absent) plus the added quantity.
C2_AddItemAmended ==
  [][(lastOp'.op = "addItem" /\ opsLeft' < opsLeft
        /\ ~IsBlank(lastOp'.nameText))
       => AddItemDid(Trim(lastOp'.nameText), lastOp'.qty, StoredQtyOr1)]_vars

\* C2 witness: an add has just created a second item named like a finished
\* one, which kept its quantity
C2_Witness ==
  /\ running
  /\ lastOp.op = "addItem" /\ lastOp.out = "created"
  /\ Len(items) = 3
  /\ items[1].name = <<"a">> /\ ~items[1].done
  /\ items[2].name = <<"a">> /\ items[2].done /\ items[2].qty = 2

----------------------------------------------------------------------------
(* C3 *)

\* the text is a decimal numeral of a positive integer
IsPositiveNumeral(text) ==
  /\ text # <<>>
  /\ \A i \in 1..Len(text) : IsDigit(text[i])
  /\ \E i \in 1..Len(text) : text[i] # "0"

\* C3 (as claimed): in a run from the empty list that used only the list
\* handlers every item has a quantity of at least 1, and an add whose
\* quantity text is no positive integer creates its item with quantity 1.
C3_QuantityAtLeastOne ==
  /\ [](scope = "listOps" =>
          \A i \in 1..Len(items) :
            Has(items[i], "qty") /\ items[i].qty >= 1)
  /\ [][lastOp'.op = "addItem" => \A in \in AddItemInputs :
          (AddItemStep(in) /\ lastOp'.out = "created"
             /\ ~IsPositiveNumeral(in[2])) => items'[1].qty = 1]_vars

----------------------------------------------------------------------------
(* C4 *)

\* C4: addItem with a blank name (empty or white space only) leaves the
\* item list and every slot of the storage exactly as they were.
C4_BlankNameChangesNothing ==
  [][(lastOp'.op = "addItem" /\ opsLeft' < opsLeft /\ IsBlank(lastOp'.nameText))
       => (items' = items /\ ls' = ls)]_vars

\* C4 witness: addItem has just returned on a blank name while the list
\* holds items and the items slot was never written
C4_Witness ==
  /\ running
  /\ lastOp.op = "addItem" /\ lastOp.nameText = <<" ">>
  /\ Len(items) = 1
  /\ ls.items = LegacyStore.items

----------------------------------------------------------------------------
(* C5 *)

\* C5 (as claimed): in a run without import, a page reload keeps the list
\* identifier that was in effect before it.
C5_ListIdSurvivesReload ==
  [][(lastOp'.op = "reload" /\ scope' # "any") => listId' = listId]_vars

----------------------------------------------------------------------------
(* C6 *)

\* C6: between handlers the storage reconstructs the memory: what
\* loadState reads from the items, theme and list name slots is exactly the
\* in-memory items, theme and list name, and a handler that changed one of
\* them has written its text to the slot.
C6_StorageMatchesMemory ==
  /\ LoadItems(ls) = items
  /\ LoadDark(ls) = dark
  /\ LoadListName(ls) = listName
  /\ (lastOp.op \in ListOps /\ lastOp.out # "blank")
       => ls.items = <<"arr", [i \in 1..Len(items) |-> StringifyItem(items[i])]>>
  /\ lastOp.op = "toggleDark"
       => ls.dark = <<"lit", IF dark THEN "true" ELSE "false">>
  /\ lastOp.op = "setListName" => ls.listName = <<"raw", listName>>
  /\ (lastOp.op = "importJSON" /\ lastOp.out = "ok")
       => ls.listName = <<"raw", listName>>

\* C6 witness: the theme was toggled on after an item was added to an
\* empty, never stored list
C6_Witness ==
  /\ running
  /\ lastOp.op = "toggleDark"
  /\ dark
  /\ Len(items) = 1
  /\ scope = "noImport"
  /\ items[1].listId = listId

----------------------------------------------------------------------------
(* Vocabulary of the import properties *)

\* the file text is JSON
IsJson(doc) == doc # NoText /\ doc[1] # "garbage"

\* the file text is a JSON object whose items member is an array
HasItemsArray(doc) ==
  /\ doc # NoText
  /\ doc[1] = "obj"
  /\ \E i \in 1..Len(doc[2]) : doc[2][i][1] = "items" /\ doc[2][i][2][1] = "arr"

ImportInputsOf(doc) ==
  {<<doc, q, t, rs>> : q \in NameInputs, t \in Times,
                       rs \in [1..DrawsOf(doc) -> Rands]}

ImportInputs == UNION {ImportInputsOf(doc) : doc \in Docs \cup {download}}

\* the step taken is some invocation of the import callback, with its inputs
ImportStep(in) ==
  /\ lastOp'.op = "importJSON"
  /\ in[1] # NoText
  /\ ImportJSONWith(in[1], in[2], in[3], in[4])

ImportLeftAllAlone == UNCHANGED <<items, listName, listId, ls>>

----------------------------------------------------------------------------
(* C7 *)

\* C7 (as claimed): importing a JSON text whose items member is not an
\* array (the text null included) signals the invalid-file error and leaves
\* items, listName, listId and the storage as they were.
C7_NotAnArrayIsInvalidFile ==
  [][lastOp'.op = "importJSON" => \A in \in ImportInputs :
       (ImportStep(in) /\ IsJson(in[1]) /\ ~HasItemsArray(in[1])) =>
         (lastOp'.out = "invalidFile" /\ ImportLeftAllAlone)]_vars

----------------------------------------------------------------------------
(* C8 *)

\* C8 (as claimed): an import that signals the load-error has left items,
\* listName, listId and the storage as they were, and every text that is
\* not JSON gets the load-error.
C8_LoadErrorChangesNothing ==
  [][lastOp'.op = "importJSON" =>
       /\ lastOp'.out = "loadError" => ImportLeftAllAlone
       /\ \A in \in ImportInputs :
            (ImportStep(in) /\ ~IsJson(in[1])) => lastOp'.out = "loadError"]_vars

----------------------------------------------------------------------------
(* C9 *)

\* the item is the same but for an identifier it did not have before
SameButNewId(old, new) ==
  IF TruthyId(old)
    THEN new = old
    ELSE /\ DOMAIN new = (DOMAIN old) \cup {"id"}
         /\ \A k \in (DOMAIN old) \ {"id"} : new[k] = old[k]

----------------------------------------------------------------------------
(* C10 *)

\* C10 (as claimed): after the import of a JSON text whose items member is
\* an array the item identifiers of the list are pairwise distinct.
C10_ImportMakesIdsDistinct ==
  [][lastOp'.op = "importJSON" => \A in \in ImportInputs :
       (ImportStep(in) /\ HasItemsArray(in[1])) => DistinctIds(items')]_vars

----------------------------------------------------------------------------
(* C11 *)

\* the positions of its whose item is not finished, in order
UnfinishedOf(its) == SelectSeq(its, LAMBDA it : ~IsDone(it))

\* C11: after clearDoneItems no finished item remains and the unfinished
\* items are the ones of before, in their order; a second call right after
\* the first leaves the items and the storage as the first left them.
C11_ClearDoneIdempotent ==
  /\ [][(lastOp'.op = "clearDoneItems" /\ opsLeft' < opsLeft) =>
          /\ \A i \in 1..Len(items') : ~IsDone(items'[i])
          /\ items' = UnfinishedOf(items)]_vars
  /\ [][(lastOp.op = "clearDoneItems" /\ lastOp'.op = "clearDoneItems"
           /\ opsLeft' < opsLeft) =>
          (items' = items /\ ls' = ls)]_vars

\* C11 witness: clearDoneItems ran twice on the list that held a finished
\* and an unfinished item; the unfinished one is left, and stored
C11_Witness ==
  /\ running
  /\ lastOp.op = "clearDoneItems"
  /\ opsLeft = MaxOps - 2
  /\ Len(items) = 1
  /\ IdOf(items[1]) = <<"d", 2>> /\ ~IsDone(items[1])
  /\ ls.items = StringifyItems(items)
  /\ listName = "party" /\ ls.listName = PriorStore.listName

----------------------------------------------------------------------------
(* The page content: updateSuggestions and render *)

\* app.js:18-22 holds 39 distinct names
NumStarters == 39

\* app.js:138, 140: slice(0, 12)
MaxSuggestions == 12

Alpha == <<"a", "b", "c", "d", "e", "f", "g">>

\* app.js:18-22; the names are stood for by the two-letter words aa, ab, ...
STARTER_SUGGESTIONS ==
  [i \in 1..NumStarters |->
     <<Alpha[((i - 1) \div Len(Alpha)) + 1], Alpha[((i - 1) % Len(Alpha)) + 1]>>]

\* i.name of app.js:135
NameOf(it) == IF Has(it, "name") THEN it.name ELSE Undefined

\* a pool that would keep every occurrence
KeepAll(seq) == seq

\* Array.from(new Set(seq)): the first occurrence of each value, in order
RECURSIVE Dedupe(_)
Dedupe(seq) ==
  IF seq = <<>> THEN <<>>
  ELSE LET rest == Dedupe(SubSeq(seq, 1, Len(seq) - 1))
           last == seq[Len(seq)]
       IN  IF \E i \in 1..Len(rest) : rest[i] = last
             THEN rest ELSE Append(rest, last)

\* name.includes(q) on strings
Includes(name, q) ==
  \E k \in 0..(Len(name) - Len(q)) : SubSeq(name, k + 1, k + Len(q)) = q

\* seq.slice(0, n)
Slice(seq, n) == SubSeq(seq, 1, IF Len(seq) < n THEN Len(seq) ELSE n)

\* app.js:134-141: whether line 140 raises, and the results otherwise
updateSuggestions(its, text) ==
  LET q == Trim(text)
      pool == Dedupe(STARTER_SUGGESTIONS \o [i \in 1..Len(its) |-> NameOf(its[i])])
  IN  IF q = <<>>
        THEN [throws |-> FALSE, results |-> Slice(pool, MaxSuggestions)]
      ELSE IF \E i \in 1..Len(pool) : pool[i] = Undefined
        THEN [throws |-> TRUE, results |-> <<>>]
      ELSE [throws |-> FALSE,
            results |-> Slice(SelectSeq(pool, LAMBDA n : Includes(n, q)),
                              MaxSuggestions)]

\* app.js:291-297: the values filterSelect is compared with, and any other
Filters == {"all", "todo", "done"}

\* app.js:292-298: the filtered items, as positions in items
Filtered(its, f) ==
  SelectSeq([i \in 1..Len(its) |-> i],
            LAMBDA i : IF f = "todo" THEN ~IsDone(its[i])
                       ELSE IF f = "done" THEN IsDone(its[i])
                       ELSE TRUE)

\* app.js:302: it.category || fallback
KeyOf(it) ==
  IF Has(it, "category") /\ it.category # "" THEN it.category ELSE FALLBACK_CAT

\* app.js:300-305: the keys of the Map, in insertion order
GroupKeys(its, idx) == Dedupe([k \in 1..Len(idx) |-> KeyOf(its[idx[k]])])

\* app.js:303-304: groups.get(key)
GroupOf(its, idx, key) == SelectSeq(idx, LAMBDA i : KeyOf(its[i]) = key)

\* CATS.includes(cat)
InCats(key) == \E i \in 1..Len(CATS) : CATS[i] = key

\* app.js:322-356: one card; item is the position of the object it shows
Card(its, i) ==
  [item |-> i, name |-> NameOf(its[i]), qty |-> QtyOr1(its[i]),
   pill |-> KeyOf(its[i]), done |-> IsDone(its[i]), id |-> IdOf(its[i])]

\* app.js:315-357: a header and the cards of its group
Section(its, idx, key) ==
  LET group == GroupOf(its, idx, key)
  IN  [header |-> key, cards |-> [k \in 1..Len(group) |-> Card(its, group[k])]]

\* a render that would walk the Map only, in insertion order
headersInMapOrder(its, idx) == GroupKeys(its, idx)

\* app.js:311-313 and 361-362: the headers emitted, in order
headers(its, idx) ==
  SelectSeq(CATS, LAMBDA c : GroupOf(its, idx, c) # <<>>)
    \o SelectSeq(GroupKeys(its, idx), LAMBDA k : ~InCats(k))

\* a filter that would show every item
renderAll(its, f) ==
  LET idx == Filtered(its, "all")
      heads == headers(its, idx)
  IN  [sections |-> [h \in 1..Len(heads) |-> Section(its, idx, heads[h])],
       emptyMessage |-> heads = <<>>]

\* app.js:289-405
render(its, f) ==
  LET idx == Filtered(its, f)
      heads == headers(its, idx)
  IN  [sections |-> [h \in 1..Len(heads) |-> Section(its, idx, heads[h])],
       emptyMessage |-> heads = <<>>]

----------------------------------------------------------------------------
(* SpecView: render and updateSuggestions applied to bounded item lists *)

\* longest item list of SpecView
MaxViewItems == 3

\* items as addItem creates them and as an imported or stored list can hold
\* them: two items named a, a name of the starter list, two categories
\* outside CATS, an empty and a missing category, an item without name
ViewItems ==
  { [id |-> <<"d", 1>>, name |-> <<"a">>, qty |-> 1, category |-> "dairy",
     note |-> <<>>, done |-> FALSE, createdAt |-> 0, listId |-> <<"d", 7>>],
    [id |-> <<"d", 2>>, name |-> <<"a">>, qty |-> 2, category |-> "garden",
     note |-> <<>>, done |-> TRUE, createdAt |-> 0, listId |-> <<"d", 7>>],
    [id |-> <<"d", 3>>, name |-> <<"a", "b">>, qty |-> 1, category |-> "",
     note |-> <<>>, done |-> FALSE, createdAt |-> 0, listId |-> <<"d", 7>>],
    [id |-> <<"d", 5>>, name |-> <<"z", "z">>, qty |-> 0, category |-> "pets",
     done |-> TRUE],
    [id |-> <<"d", 6>>, name |-> <<"c">>, qty |-> 1, category |-> "vegetables",
     note |-> <<>>, done |-> FALSE, createdAt |-> 0, listId |-> <<"d", 7>>],
    [id |-> <<"d", 7>>, done |-> TRUE] }

ViewLists == UNION {[1..n -> ViewItems] : n \in 0..MaxViewItems}

\* texts of the name field
QueryInputs == { <<>>, <<"a">>, <<" ", "a", "b">>, <<"z">>, <<"q">> }

\* app.js:408-413: the page after init() on a loaded list
InitView ==
  /\ items \in ViewLists
  /\ filter \in Filters
  /\ query = <<>>
  /\ suggestions = updateSuggestions(items, query).results
  /\ shown = render(items, filter)
  /\ dark = FALSE /\ listName = DEFAULT_LIST_NAME /\ listId = <<"d", 7>>
  /\ ls = [EmptyStore EXCEPT !.items = StringifyItems(items)]
  /\ running = TRUE /\ download = NoText
  /\ uuidCount = 0 /\ cryptoAvail = TRUE
  /\ opsLeft = 0 /\ scope = "any" /\ lastOp = Op("load", "ok")
  /\ VoiceIdle
  /\ WorkerIdle

\* app.js:423: filterSelect change -> render
FilterChanged ==
  \E f \in Filters :
    /\ filter' = f
    /\ shown' = render(items, f)
    /\ lastOp' = Op("render", "ok")
    /\ UNCHANGED <<items, dark, listName, listId, ls, running, download,
                   uuidCount, cryptoAvail, opsLeft, scope, query, suggestions,
                   voiceVars, swVars>>

\* app.js:419: itemNameInput input -> updateSuggestions; when line 140
\* raises, suggestionsDiv keeps what it held
NameTyped ==
  \E text \in QueryInputs :
    LET res == updateSuggestions(items, text)
    IN  /\ query' = text
        /\ suggestions' = IF res.throws THEN suggestions ELSE res.results
        /\ lastOp' = Op("updateSuggestions", IF res.throws THEN "throws" ELSE "ok")
        /\ UNCHANGED <<items, dark, listName, listId, ls, running, download,
                       uuidCount, cryptoAvail, opsLeft, scope, filter, shown,
                       voiceVars, swVars>>

NextView ==
  \/ FilterChanged
  \/ NameTyped

SpecView == InitView /\ [][NextView]_vars

----------------------------------------------------------------------------
(* C12 *)

\* C12: the suggestion list has at most 12 entries and no name twice.
C12_SuggestionsBounded ==
  /\ Len(suggestions) <= 12
  /\ \A i, j \in 1..Len(suggestions) :
       i # j => suggestions[i] # suggestions[j]

\* C12 witness: the query a matches more than 12 names of a pool in which
\* the name a occurs twice among the items; 12 are listed
C12_Witness ==
  /\ query = <<"a">>
  /\ lastOp = Op("updateSuggestions", "ok")
  /\ Len(suggestions) = 12
  /\ Cardinality({i \in 1..Len(items) : NameOf(items[i]) = <<"a">>}) = 2
  /\ \E i \in 1..Len(items) : NameOf(items[i]) = <<"a", "b">>

----------------------------------------------------------------------------
(* C13 *)

\* the positions of the items the filter selects
Selected(its, f) ==
  {i \in 1..Len(its) :
     \/ f = "all"
     \/ f = "todo" /\ ~IsDone(its[i])
     \/ f = "done" /\ IsDone(its[i])}

\* the places of the page that hold a card: section and rank in it
CardPlaces(page) ==
  {pl \in (1..Len(page.sections)) \X (1..MaxViewItems + 1) :
     pl[2] <= Len(page.sections[pl[1]].cards)}

CardAt(page, pl) == page.sections[pl[1]].cards[pl[2]]

\* C13: the page holds one card for each item the filter selects (all: every
\* item, todo: the unfinished, done: the finished) and no other card, the
\* card showing that item, and the empty-list message is shown exactly
\* when the page holds no card.
C13_RenderShowsFiltered ==
  /\ \A i \in 1..Len(items) :
       Cardinality({pl \in CardPlaces(shown) : CardAt(shown, pl).item = i})
         = IF i \in Selected(items, filter) THEN 1 ELSE 0
  /\ \A pl \in CardPlaces(shown) :
       /\ CardAt(shown, pl).item \in 1..Len(items)
       /\ CardAt(shown, pl).name = NameOf(items[CardAt(shown, pl).item])
       /\ CardAt(shown, pl).id = IdOf(items[CardAt(shown, pl).item])
  /\ shown.emptyMessage <=> (CardPlaces(shown) = {})

\* C13 witness: the filter was set to todo on a list of two unfinished
\* items and a finished one; two cards are shown, no message
C13_Witness ==
  /\ lastOp = Op("render", "ok")
  /\ filter = "todo"
  /\ Len(items) = 3
  /\ Cardinality({i \in 1..Len(items) : IsDone(items[i])}) = 1
  /\ Cardinality(CardPlaces(shown)) = 2
  /\ ~shown.emptyMessage

----------------------------------------------------------------------------
(* C14 *)

\* the category an item is shown under: its own, or the fallback when it
\* has none or an empty one
ShownCategory(it) ==
  IF Has(it, "category") /\ it.category # "" THEN it.category ELSE "other"

\* the rank of a category in the canonical list; 0 outside it
CatRank(c) ==
  IF \E i \in 1..Len(CATS) : CATS[i] = c
    THEN CHOOSE i \in 1..Len(CATS) : CATS[i] = c ELSE 0

\* the position of the first selected item of the category
FirstOf(its, f, c) ==
  CHOOSE i \in Selected(its, f) :
    /\ ShownCategory(its[i]) = c
    /\ \A j \in Selected(its, f) : ShownCategory(its[j]) = c => i <= j

\* C14: the headers are the categories of the selected items, one each;
\* those of the canonical list come first, in canonical order, the others
\* after them in the order of their first selected item; each card stands
\* under the header of its item's category (the fallback for an empty or
\* missing one), in the order of the item list.
C14_RenderGroupsInOrder ==
  LET secs == shown.sections
      H(h) == secs[h].header
  IN  /\ {H(h) : h \in 1..Len(secs)}
           = {ShownCategory(items[i]) : i \in Selected(items, filter)}
      /\ \A h1, h2 \in 1..Len(secs) : h1 < h2 =>
           /\ H(h1) # H(h2)
           /\ CatRank(H(h2)) # 0 =>
                (CatRank(H(h1)) # 0 /\ CatRank(H(h1)) < CatRank(H(h2)))
           /\ (CatRank(H(h1)) = 0 /\ CatRank(H(h2)) = 0) =>
                FirstOf(items, filter, H(h1)) < FirstOf(items, filter, H(h2))
      /\ \A h \in 1..Len(secs) :
           /\ \A k \in 1..Len(secs[h].cards) :
                ShownCategory(items[secs[h].cards[k].item]) = H(h)
           /\ \A k1, k2 \in 1..Len(secs[h].cards) :
                k1 < k2 => secs[h].cards[k1].item < secs[h].cards[k2].item

\* C14 witness: a list that starts with an item of a category outside the
\* canonical list, then one without category, then a vegetable: the
\* headers are vegetables, other and the outside category
C14_Witness ==
  /\ lastOp = Op("render", "ok")
  /\ filter = "all"
  /\ Len(items) = 3
  /\ Len(shown.sections) = 3
  /\ ~Has(items[2], "category")
  /\ shown.sections[1].header = "vegetables"
  /\ shown.sections[2].header = "other"
  /\ shown.sections[3].header = "pets"

----------------------------------------------------------------------------
(* C15 *)

\* the step taken is toggleDone(id) / removeItem(id)
ToggleDoneStep(id) == lastOp'.op = "toggleDone" /\ ToggleDoneWith(id)

RemoveItemStep(id) == lastOp'.op = "removeItem" /\ RemoveItemWith(id)

\* new is old with the done flag flipped and every other field as it was
Flipped(old, new) ==
  /\ DOMAIN new = (DOMAIN old) \cup {"done"}
  /\ new.done = ~IsDone(old)
  /\ \A k \in (DOMAIN old) \ {"done"} : new[k] = old[k]

\* the positions of the items that carry the identifier
Carrying(its, id) == {i \in 1..Len(its) : IdOf(its[i]) = id}

\* seq without its element at position i
Without(seq, i) == SubSeq(seq, 1, i - 1) \o SubSeq(seq, i + 1, Len(seq))

----------------------------------------------------------------------------
(* C16 *)

\* the items slot holds text that is not JSON, or JSON that is not a list
MalformedItems(raw) == raw = Garbage \/ (raw # NoText /\ raw[1] # "arr")

\* the state is the one a page load has just produced
JustLoaded == lastOp.op \in {"load", "reload"}

\* C16 (as claimed): right after a page load, whatever the four slots hold,
\* the page has started; a malformed items slot has given the empty list and
\* a malformed theme slot has given false; and what is loaded for a slot is
\* what would be loaded for it if the other slots were absent.
C16_LoadFallsBackToDefaults ==
  JustLoaded =>
    /\ running
    /\ MalformedItems(ls.items) => items = <<>>
    /\ ls.dark = Garbage => dark = FALSE
    /\ items = loadState([EmptyStore EXCEPT !.items = ls.items], listId).items
    /\ dark = loadState([EmptyStore EXCEPT !.dark = ls.dark], listId).dark
    /\ listName
         = loadState([EmptyStore EXCEPT !.listName = ls.listName], listId).listName

----------------------------------------------------------------------------
(* SpecList: the four list handlers from the empty list *)

\* handler invocations per run of SpecList
MaxListOps == 4

\* the first visit: nothing stored, the list is empty
InitList ==
  \E c \in BOOLEAN, r \in Rands :
    /\ (c => r = 0)
    /\ cryptoAvail = c
    /\ uuidCount = IF c THEN 1 ELSE 0
    /\ ls = EmptyStore
    /\ LET st == loadState(EmptyStore, IF c THEN <<"u", 1>> ELSE <<"t", 0, r>>)
       IN  /\ items = st.items
           /\ dark = st.dark
           /\ listName = st.listName
           /\ listId = st.listId
    /\ running = TRUE
    /\ download = NoText
    /\ opsLeft = MaxListOps
    /\ scope = "listOps"
    /\ lastOp = Op("load", "ok")
    /\ filter = NoView /\ query = NoView
    /\ shown = NoView /\ suggestions = NoView
    /\ VoiceIdle
    /\ WorkerIdle

NextList ==
  \/ AddItem
  \/ ToggleDone
  \/ RemoveItem
  \/ ClearDoneItems

SpecList == InitList /\ [][NextList]_vars

----------------------------------------------------------------------------
(* C19 *)

\* C19 (as claimed): in a run from the empty list that used only the list
\* handlers, no two unfinished items have the same name.
C19_OneUnfinishedPerName ==
  \A i, j \in 1..Len(items) :
    (i # j /\ ~IsDone(items[i]) /\ ~IsDone(items[j]))
      => NameOf(items[i]) # NameOf(items[j])

----------------------------------------------------------------------------
(* Speech input: startVoice, stopVoice and the session callbacks *)

\* speech sessions per run of SpecVoice
MaxSessions == 2

\* number of leading / trailing digits of a text
LeadDigits(s) ==
  Cardinality({n \in 1..Len(s) : \A i \in 1..n : IsDigit(s[i])})

TrailDigits(s) ==
  Cardinality({n \in 1..Len(s) : \A i \in (Len(s) - n + 1)..Len(s) : IsDigit(s[i])})

\* app.js:256-268: the name and quantity fields after the transcript was
\* matched against /^(\d{1,3})\s+(.+)$/ and /^(.+)\s+(\d{1,3})$/;
\* qtyField is what the quantity field held
ParseTranscript(transcript, qtyField) ==
  LET text == Trim(transcript)
      d == LeadDigits(text)
      e == TrailDigits(text)
      n == Len(text)
  IN  IF d \in 1..3 /\ n > d /\ IsSpace(text[d + 1])
        THEN [qty |-> SubSeq(text, 1, d), name |-> TrimStart(SubSeq(text, d + 1, n))]
      ELSE IF e \in 1..3 /\ n > e + 1 /\ IsSpace(text[n - e])
        THEN [qty |-> SubSeq(text, n - e + 1, n), name |-> SubSeq(text, 1, n - e - 1)]
      ELSE [qty |-> qtyField, name |-> text]

\* what the recognition service hears
Transcripts == { <<"b">>, <<"2", " ", "b">>, <<"b", " ", " ", "3">> }

\* app.js:174: the quantity field between adds
VoiceQtyField == <<"1">>

\* app.js:251: a new SpeechRecognition object, started at line 276
NewSession == [phase |-> "listening", stopped |-> FALSE]

\* a stop that would keep the reference to the session
stopVoiceKeepingRecognizer(rec, sess) ==
  [recognizer |-> rec,
   sessions |-> IF rec # 0 THEN [sess EXCEPT ![rec].stopped = TRUE] ELSE sess,
   voiceBtnShown |-> TRUE, stopVoiceBtnShown |-> FALSE]

\* app.js:278-285 on the reference rec and the session objects sess;
\* recognizer.stop() marks the session, whatever its phase
stopVoice(rec, sess) ==
  [recognizer |-> 0,
   sessions |-> IF rec # 0 THEN [sess EXCEPT ![rec].stopped = TRUE] ELSE sess,
   voiceBtnShown |-> TRUE, stopVoiceBtnShown |-> FALSE]

\* the program's speech state becomes st
VoiceBecomes(st) ==
  /\ recognizer' = st.recognizer
  /\ sessions' = st.sessions
  /\ voiceBtnShown' = st.voiceBtnShown
  /\ stopVoiceBtnShown' = st.stopVoiceBtnShown

ListAlone ==
  UNCHANGED <<items, dark, listName, listId, ls, running, download, uuidCount,
              cryptoAvail, opsLeft, scope, viewVars, speechSupported, swVars>>

\* app.js:431, 245-277: a click on the shown voice button
StartVoice ==
  /\ voiceBtnShown
  /\ Len(sessions) < MaxSessions
  /\ caller' = 0
  /\ IF ~speechSupported
       THEN /\ lastOp' = Op("startVoice", "unsupported")
            /\ UNCHANGED <<recognizer, sessions, voiceBtnShown, stopVoiceBtnShown>>
       ELSE /\ lastOp' = Op("startVoice", "ok")
            /\ recognizer' = Len(sessions) + 1
            /\ sessions' = Append(sessions, NewSession)
            /\ voiceBtnShown' = FALSE
            /\ stopVoiceBtnShown' = TRUE
  /\ ListAlone

\* app.js:432: a click on the shown stop button
StopVoiceClick ==
  /\ stopVoiceBtnShown
  /\ caller' = 0
  /\ lastOp' = Op("stopVoice", "ok")
  /\ VoiceBecomes(stopVoice(recognizer, sessions))
  /\ ListAlone

\* app.js:255-271: the service delivers the result of session s
OnResultWith(s, transcript) ==
  LET fields == ParseTranscript(transcript, VoiceQtyField)
      res == addItem(fields.name, fields.qty, "dairy", <<>>, 0, 0)
  IN  /\ sessions[s].phase = "listening"
      /\ caller' = s
      /\ lastOp' = [op |-> "onresult", out |-> res.out, nameText |-> fields.name,
                    qty |-> IF res.out = "blank" THEN 0 ELSE QtyOf(fields.qty)]
      /\ items' = res.items
      /\ ls' = IF res.saved THEN saveState(ls, [items |-> items']) ELSE ls
      /\ uuidCount' = UuidCountAfter(res.drawn)
      /\ VoiceBecomes(stopVoice(recognizer,
                                [sessions EXCEPT ![s].phase = "resulted"]))
      /\ UNCHANGED <<dark, listName, listId, running, download, cryptoAvail,
                     opsLeft, scope, viewVars, speechSupported, swVars>>

OnResult ==
  \E s \in 1..Len(sessions), transcript \in Transcripts :
    OnResultWith(s, transcript)

\* app.js:272: the service reports an error of session s
OnError ==
  \E s \in 1..Len(sessions) :
    /\ sessions[s].phase = "listening"
    /\ caller' = s
    /\ lastOp' = Op("onerror", "ok")
    /\ VoiceBecomes(stopVoice(recognizer,
                              [sessions EXCEPT ![s].phase = "errored"]))
    /\ ListAlone

\* app.js:273: the service reports the end of session s, its last event
OnEnd ==
  \E s \in 1..Len(sessions) :
    /\ sessions[s].phase # "ended"
    /\ caller' = s
    /\ lastOp' = Op("onend", "ok")
    /\ VoiceBecomes(stopVoice(recognizer,
                              [sessions EXCEPT ![s].phase = "ended"]))
    /\ ListAlone

\* the page of a first visit; the buttons' initial display comes from the
\* page markup
InitVoice ==
  /\ cryptoAvail = TRUE
  /\ uuidCount = 1
  /\ ls = EmptyStore
  /\ LET st == loadState(EmptyStore, <<"u", 1>>)
     IN  /\ items = st.items
         /\ dark = st.dark
         /\ listName = st.listName
         /\ listId = st.listId
  /\ running = TRUE
  /\ download = NoText
  /\ opsLeft = 0
  /\ scope = "listOps"
  /\ lastOp = Op("load", "ok")
  /\ filter = NoView /\ query = NoView
  /\ shown = NoView /\ suggestions = NoView
  /\ recognizer = 0
  /\ sessions = <<>>
  /\ voiceBtnShown = TRUE
  /\ stopVoiceBtnShown \in BOOLEAN
  /\ speechSupported \in BOOLEAN
  /\ caller = 0
  /\ WorkerIdle

NextVoice ==
  \/ StartVoice
  \/ StopVoiceClick
  \/ OnResult
  \/ OnError
  \/ OnEnd

SpecVoice == InitVoice /\ [][NextVoice]_vars

----------------------------------------------------------------------------
(* C17 *)

\* the steps that run stopVoice: the stop button and the three callbacks
StopSteps == {"stopVoice", "onresult", "onerror", "onend"}

\* a session the service still listens for and nobody has stopped
Active(sess, s) == sess[s].phase = "listening" /\ ~sess[s].stopped

\* C17: in every state stopVoice applied twice gives what it gives applied
\* once; after every step that runs stopVoice (the stop button, or a
\* result, error or end callback, also one that follows a stop) the program
\* holds no session, no session is active, the voice button is shown and
\* the stop button hidden; and when such a step follows another one it
\* changes none of these.
C17_StopVoiceSafeIdempotent ==
  /\ [](LET once == stopVoice(recognizer, sessions)
        IN  stopVoice(once.recognizer, once.sessions) = once)
  /\ [][lastOp'.op \in StopSteps =>
          /\ recognizer' = 0
          /\ \A s \in 1..Len(sessions') : ~Active(sessions', s)
          /\ voiceBtnShown' /\ ~stopVoiceBtnShown']_vars
  /\ [][(lastOp.op \in StopSteps /\ lastOp'.op \in StopSteps) =>
          /\ UNCHANGED <<recognizer, voiceBtnShown, stopVoiceBtnShown>>
          /\ \A s \in 1..Len(sessions) :
               sessions'[s].stopped = sessions[s].stopped]_vars

\* C17 witness: the one session was stopped and its end callback has run
\* stopVoice again
C17_Witness ==
  /\ lastOp.op = "onend" /\ caller = 1
  /\ Len(sessions) = 1
  /\ sessions[1].stopped /\ sessions[1].phase = "ended"
  /\ recognizer = 0
  /\ voiceBtnShown /\ ~stopVoiceBtnShown

----------------------------------------------------------------------------
(* C20 *)

\* C20 (as claimed): a result, error or end callback of one session leaves
\* every other session as it was: not stopped if it was not, and held by
\* the program if it was.
C20_SessionsIsolated ==
  [][lastOp'.op \in {"onresult", "onerror", "onend"} =>
       \A s \in 1..Len(sessions) :
         s # caller' =>
           /\ sessions'[s].stopped = sessions[s].stopped
           /\ recognizer = s => recognizer' = s]_vars

----------------------------------------------------------------------------
(* The asset cache worker *)

\* fetch events per run of SpecWorker
MaxRequests == 2

\* part_000:2
ASSETS == {"./", "./index.html", "./manifest.webmanifest",
           "./icons/icon-192.png", "./icons/icon-512.png"}

\* a cache an earlier version of the worker left behind
OLD_CACHE == "sababagrocery-v2"

\* what the page asks for: a precached asset and one that is not
RequestUrls == {"./", "./app.js"}

Methods == {"GET", "POST"}

\* resp.status and resp.type of a network answer
Statuses == {200, 404}

ResponseTypes == {"basic", "cors"}

\* the URLs a cache of that name holds; none when there is no such cache
Held(store, name) == IF name \in DOMAIN store THEN store[name] ELSE {}

\* caches.match(request): the first copy found, the older cache first;
\* only GET requests match
Match(store, req) ==
  IF req.method # "GET" THEN Undefined
  ELSE IF req.url \in Held(store, OLD_CACHE) THEN <<"copy", OLD_CACHE, req.url>>
  ELSE IF req.url \in Held(store, CACHE_NAME) THEN <<"copy", CACHE_NAME, req.url>>
  ELSE Undefined

\* caches.open(CACHE_NAME), creating the cache, then adding the URLs
Stored(store, urls) ==
  [n \in (DOMAIN store) \cup {CACHE_NAME} |->
     IF n = CACHE_NAME THEN Held(store, n) \cup urls ELSE store[n]]

\* part_000:15
Cacheable(req, status, type) ==
  req.method = "GET" /\ status = 200 /\ type \in {"basic", "opaque"}

PageAlone ==
  UNCHANGED <<items, dark, listName, listId, ls, running, download, uuidCount,
              cryptoAvail, opsLeft, scope, lastOp, viewVars, voiceVars>>

\* part_000:4-6; addAll stores all assets or, when one cannot be fetched,
\* none, and then the installation fails
Install ==
  \E ok \in BOOLEAN :
    /\ swPhase = "parsed"
    /\ swPhase' = IF ok THEN "installed" ELSE "redundant"
    /\ swCaches' = Stored(swCaches, IF ok THEN ASSETS ELSE {})
    /\ swLast' = [op |-> "install", req |-> 0]
    /\ UNCHANGED reqs
    /\ PageAlone

\* part_000:7-9
Activate ==
  /\ swPhase = "installed"
  /\ swPhase' = "activated"
  /\ swCaches' = [n \in (DOMAIN swCaches) \cap {CACHE_NAME} |-> swCaches[n]]
  /\ swLast' = [op |-> "activate", req |-> 0]
  /\ UNCHANGED reqs
  /\ PageAlone

\* part_000:10-13: a fetch event arrives, caches.match is called
FetchEvent ==
  \E url \in RequestUrls, method \in Methods :
    /\ swPhase = "activated"
    /\ Len(reqs) < MaxRequests
    /\ reqs' = Append(reqs, [url |-> url, method |-> method, pc |-> "matching",
                             cached |-> Undefined, answer |-> <<"pending">>,
                             put |-> "none"])
    /\ swLast' = [op |-> "fetch", req |-> Len(reqs) + 1]
    /\ UNCHANGED <<swPhase, swCaches>>
    /\ PageAlone

\* part_000:13-14: caches.match resolves; a copy is the answer, otherwise
\* the network is asked
MatchDone ==
  \E i \in 1..Len(reqs) :
    LET cached == Match(swCaches, reqs[i])
    IN  /\ reqs[i].pc = "matching"
        /\ reqs' = [reqs EXCEPT ![i] =
                      IF cached # Undefined
                        THEN [@ EXCEPT !.cached = cached, !.answer = cached,
                                       !.pc = "answered"]
                        ELSE [@ EXCEPT !.pc = "fetching"]]
        /\ swLast' = [op |-> "match", req |-> i]
        /\ UNCHANGED <<swPhase, swCaches>>
        /\ PageAlone

\* part_000:14-19: the network answers; the answer is returned and, when
\* cacheable, a copy is on its way to the cache
NetworkOk ==
  \E i \in 1..Len(reqs), status \in Statuses, type \in ResponseTypes :
    /\ reqs[i].pc = "fetching"
    /\ reqs' = [reqs EXCEPT ![i] =
                  [@ EXCEPT !.answer = <<"network", status>>, !.pc = "answered",
                            !.put = IF Cacheable(reqs[i], status, type)
                                      THEN "pending" ELSE "none"]]
    /\ swLast' = [op |-> "networkOk", req |-> i]
    /\ UNCHANGED <<swPhase, swCaches>>
    /\ PageAlone

\* part_000:20: the fetch is rejected; the answer is the value the lookup
\* of line 13 gave
NetworkFail ==
  \E i \in 1..Len(reqs) :
    /\ reqs[i].pc = "fetching"
    /\ reqs' = [reqs EXCEPT ![i] =
                  [@ EXCEPT !.answer = reqs[i].cached, !.pc = "answered"]]
    /\ swLast' = [op |-> "networkFail", req |-> i]
    /\ UNCHANGED <<swPhase, swCaches>>
    /\ PageAlone

\* part_000:17: caches.open(CACHE_NAME).then(cache => cache.put(...))
PutDone ==
  \E i \in 1..Len(reqs) :
    /\ reqs[i].put = "pending"
    /\ reqs' = [reqs EXCEPT ![i].put = "done"]
    /\ swCaches' = Stored(swCaches, {reqs[i].url})
    /\ swLast' = [op |-> "put", req |-> i]
    /\ UNCHANGED swPhase
    /\ PageAlone

\* the worker script was evaluated; an older cache may exist
InitWorker ==
  /\ swPhase = "parsed"
  /\ swCaches \in {[n \in {} |-> {}], [n \in {OLD_CACHE} |-> {"./"}]}
  /\ reqs = <<>>
  /\ swLast = [op |-> "none", req |-> 0]
  /\ cryptoAvail = TRUE
  /\ uuidCount = 1
  /\ ls = EmptyStore
  /\ LET st == loadState(EmptyStore, <<"u", 1>>)
     IN  /\ items = st.items
         /\ dark = st.dark
         /\ listName = st.listName
         /\ listId = st.listId
  /\ running = TRUE
  /\ download = NoText
  /\ opsLeft = 0
  /\ scope = "listOps"
  /\ lastOp = Op("load", "ok")
  /\ filter = NoView /\ query = NoView
  /\ shown = NoView /\ suggestions = NoView
  /\ VoiceIdle

NextWorker ==
  \/ Install
  \/ Activate
  \/ FetchEvent
  \/ MatchDone
  \/ NetworkOk
  \/ NetworkFail
  \/ PutDone

SpecWorker == InitWorker /\ [][NextWorker]_vars

----------------------------------------------------------------------------
(* C18 *)

\* C18 (as claimed): when the network fetch of a request fails while the
\* cache storage holds a copy of that request, the answer is that copy; and
\* a request whose copy is in the cache when it is looked up is answered
\* with the copy and never asks the network.
C18_FailedFetchServedFromCache ==
  /\ [][swLast'.op = "networkFail" =>
          LET i == swLast'.req
          IN  Match(swCaches, reqs[i]) # Undefined
                => reqs'[i].answer = Match(swCaches, reqs[i])]_vars
  /\ [][swLast'.op = "match" =>
          LET i == swLast'.req
          IN  Match(swCaches, reqs[i]) # Undefined
                => (reqs'[i].answer = Match(swCaches, reqs[i])
                    /\ reqs'[i].pc = "answered")]_vars

====
